---- MODULE Spec2Model ----
(***************************************************************************)
(* passgen: the encrypted, git-backed password store.                      *)
(*                                                                         *)
(*   ConfigManager      internal/infrastructure/config_manager.go          *)
(*   EncryptedStorage   internal/infrastructure/storage (unnamed/part_005) *)
(*   GitService         internal/infrastructure/git                        *)
(*   EncryptedPasswordStoreRepository                                      *)
(*                      internal/infrastructure/repositories               *)
(*                                                                         *)
(* The specifications of the module:                                       *)
(*   SpecConfig    the store registry file and the ConfigManager           *)
(*   SpecDefault   the default store under Get/SetDefaultStore alone       *)
(*   SpecStore     one storage object, entries with every field varied     *)
(*   SpecRotation  the repository's rotation operations on one storage     *)
(*   SpecRepo      the repository's map of storages, across processes      *)
(*   SpecGen       the password generator and the character set            *)
(*   Spec          two replicas of one store and their common remote       *)
(***************************************************************************)
EXTENDS Integers, Sequences, FiniteSets, TLC

VARIABLES cfgFile, cfgRet,
          initName, initialized, repoPath, disk, repo, remote, sync, ret,
          storages, remotes, repoRet, pgen,
          calls

cfgVars == <<cfgFile, cfgRet>>
procVars == <<storages, remotes, repoRet, pgen>>
storeVars == <<initName, initialized, repoPath, disk, repo, remote, sync, ret>>

(***************************************************************************)
(* Store registry (ConfigManager)                                          *)
(***************************************************************************)

\* Store names used as registry keys.
RegistryNames == {"personal", "work", "team"}

\* ConfigManager.configPath
CfgPath == "stores.yaml"

\* entities.PasswordStore, the fields SetDefaultStore reads or writes.
PasswordStoreRec(n, d) == [Name |-> n, IsDefault |-> d]

\* The rotation policy createDefaultConfig seeds.
DefaultRotationIntervalDays == 90
DefaultRotationNotifyDaysBefore == 7
DefaultProfileLength == 16

\* The PasswordProfile createDefaultConfig seeds, and a nil *PasswordProfile.
DefaultPasswordProfile ==
    [nil |-> FALSE, Length |-> DefaultProfileLength,
     IncludeUpper |-> TRUE, IncludeLower |-> TRUE,
     IncludeNumbers |-> TRUE, IncludeSymbols |-> TRUE,
     CustomRules |-> "no-ambiguous"]

NilPasswordProfile ==
    [nil |-> TRUE, Length |-> 0,
     IncludeUpper |-> FALSE, IncludeLower |-> FALSE,
     IncludeNumbers |-> FALSE, IncludeSymbols |-> FALSE,
     CustomRules |-> ""]

DefaultRotationConfig ==
    [nil |-> FALSE,
     IntervalDays |-> DefaultRotationIntervalDays,
     NotifyDaysBefore |-> DefaultRotationNotifyDaysBefore,
     AutoGenerate |-> TRUE,
     PasswordProfile |-> DefaultPasswordProfile]

\* A nil *DefaultRotationConfig.
NilRotation ==
    [nil |-> TRUE, IntervalDays |-> 0, NotifyDaysBefore |-> 0,
     AutoGenerate |-> FALSE, PasswordProfile |-> NilPasswordProfile]

\* The NotificationConfig createDefaultConfig seeds, and a nil one.
DefaultNotifications == [nil |-> FALSE, Enabled |-> FALSE]
NilNotifications == [nil |-> TRUE, Enabled |-> FALSE]

\* entities.StoreConfig values handed to SaveConfig.
StoreMaps ==
    UNION {[S -> {PasswordStoreRec(n, d) : n \in S, d \in BOOLEAN}] :
             S \in SUBSET RegistryNames}

SaneStoreMaps == {m \in StoreMaps : \A n \in DOMAIN m : m[n].Name = n}

StoreConfigs ==
    [DefaultStore : RegistryNames \cup {""},
     Stores : SaneStoreMaps,
     StoresNil : {FALSE},
     ConfigPath : {CfgPath},
     DefaultRotation : {NilRotation},
     Notifications : {NilNotifications}]

\* createDefaultConfig with the store map left nil.
createDefaultConfigNilStores ==
    [DefaultStore |-> "",
     Stores |-> [n \in {} |-> PasswordStoreRec(n, FALSE)],
     StoresNil |-> TRUE,
     ConfigPath |-> CfgPath,
     DefaultRotation |-> DefaultRotationConfig,
     Notifications |-> DefaultNotifications]

\* createDefaultConfig
createDefaultConfig ==
    [DefaultStore |-> "",
     Stores |-> [n \in {} |-> PasswordStoreRec(n, FALSE)],
     StoresNil |-> FALSE,
     ConfigPath |-> CfgPath,
     DefaultRotation |-> DefaultRotationConfig,
     Notifications |-> DefaultNotifications]

\* The zero StoreConfig, what yaml.Unmarshal leaves for an empty document.
ZeroConfig ==
    [DefaultStore |-> "",
     Stores |-> [n \in {} |-> PasswordStoreRec(n, FALSE)],
     StoresNil |-> TRUE,
     ConfigPath |-> "",
     DefaultRotation |-> NilRotation,
     Notifications |-> NilNotifications]

\* yaml.Marshal(config): ConfigPath is tagged yaml:"-" and is not written.
YamlMarshal(config) ==
    [DefaultStore |-> config.DefaultStore,
     Stores |-> config.Stores,
     DefaultRotation |-> config.DefaultRotation,
     Notifications |-> config.Notifications]

\* yaml.Unmarshal(data, &config): ConfigPath is not in the document, and the
\* "stores" mapping of a document makes a map, an empty one included.
YamlUnmarshal(doc) ==
    [DefaultStore |-> doc.DefaultStore,
     Stores |-> doc.Stores,
     StoresNil |-> FALSE,
     ConfigPath |-> "",
     DefaultRotation |-> doc.DefaultRotation,
     Notifications |-> doc.Notifications]

\* The registry file: absent, a complete document, or what an os.WriteFile
\* that fails or is cut off after its O_TRUNC open leaves: no bytes, or the
\* first bytes of the document.
\* mode is the permission bits of the file, in octal.
OwnerOnly == "0600"
WorldReadable == "0644"
NoFile == [kind |-> "absent", doc |-> YamlMarshal(ZeroConfig), mode |-> ""]
EmptyFile == [kind |-> "empty", doc |-> YamlMarshal(ZeroConfig), mode |-> OwnerOnly]
TruncatedFile == [kind |-> "truncated", doc |-> YamlMarshal(ZeroConfig), mode |-> OwnerOnly]
YamlFile(config) == [kind |-> "yaml", doc |-> YamlMarshal(config), mode |-> OwnerOnly]

\* os.WriteFile(name, data, 0600) opens with O_CREATE|O_TRUNC: the mode is
\* given to a file it creates, and a file that exists keeps its own.
WriteFileMode(file) == IF file.kind = "absent" THEN OwnerOnly ELSE file.mode

\* LoadConfig: <<error, config>>.
LoadConfig(file) ==
    IF file.kind = "absent"
    THEN [err |-> "none", config |-> createDefaultConfig]
    ELSE IF file.kind = "truncated"
    THEN [err |-> "failed to parse config file", config |-> ZeroConfig]
    ELSE IF file.kind = "empty"
    THEN [err |-> "none", config |-> [ZeroConfig EXCEPT !.ConfigPath = CfgPath]]
    ELSE [err |-> "none",
          config |-> [YamlUnmarshal(file.doc) EXCEPT !.ConfigPath = CfgPath]]

\* The outcomes of SaveConfig's file system calls.
SaveOutcomes ==
    {"ok", "mkdir_failed", "write_failed_open", "write_failed_empty", "write_failed_short"}

SaveConfigErr(outcome) ==
    CASE outcome = "ok" -> "none"
      [] outcome = "mkdir_failed" -> "failed to create config directory"
      [] OTHER -> "failed to write config file"

\* SaveConfig: the file after the call.
SaveConfigFile(file, config, outcome) ==
    CASE outcome = "ok" -> [YamlFile(config) EXCEPT !.mode = WriteFileMode(file)]
      [] outcome = "write_failed_empty" ->
           [EmptyFile EXCEPT !.mode = WriteFileMode(file)]
      [] outcome = "write_failed_short" ->
           [TruncatedFile EXCEPT !.mode = WriteFileMode(file)]
      [] OTHER -> file

\* A flag loop that sets the flag of the named store and leaves the others.
MarkDefaultLoopOnlyNamed(config, storeName) ==
    [config EXCEPT !.DefaultStore = storeName,
                   !.Stores = [n \in DOMAIN config.Stores |->
                       IF n = storeName
                       THEN [config.Stores[n] EXCEPT !.IsDefault = TRUE]
                       ELSE config.Stores[n]]]

\* A flag loop that sets the flags and leaves config.DefaultStore.
MarkDefaultFlagsOnly(config, storeName) ==
    [config EXCEPT !.Stores = [n \in DOMAIN config.Stores |->
                       [config.Stores[n] EXCEPT !.IsDefault = (n = storeName)]]]

\* The flag loop of SetDefaultStore (config_manager.go:94-98).
MarkDefault(config, storeName) ==
    [config EXCEPT !.DefaultStore = storeName,
                   !.Stores = [n \in DOMAIN config.Stores |->
                       [config.Stores[n] EXCEPT !.IsDefault = (n = storeName)]]]

\* An existence check that every name passes.
StoreExistsAlways(config, storeName) == TRUE

\* The existence check of SetDefaultStore: _, exists := config.Stores[storeName]
StoreExists(config, storeName) == storeName \in DOMAIN config.Stores

CfgResult(op, name, err) ==
    [op |-> op, name |-> name, err |-> err, config |-> ZeroConfig]

\* A call of ConfigManager.LoadConfig()
LoadConfigCall ==
    LET l == LoadConfig(cfgFile) IN
    /\ cfgRet' = [CfgResult("LoadConfig", "", l.err) EXCEPT !.config = l.config]
    /\ UNCHANGED cfgFile

\* ConfigManager.SaveConfig(config)
SaveConfig(config, outcome) ==
    /\ cfgFile' = SaveConfigFile(cfgFile, config, outcome)
    /\ cfgRet' = CfgResult("SaveConfig", "", SaveConfigErr(outcome))

\* ConfigManager.GetDefaultStore()
GetDefaultStore ==
    LET l == LoadConfig(cfgFile) IN
    /\ cfgRet' =
         IF l.err # "none" THEN CfgResult("GetDefaultStore", "", l.err)
         ELSE IF l.config.DefaultStore = ""
         THEN CfgResult("GetDefaultStore", "", "no default store configured")
         ELSE CfgResult("GetDefaultStore", l.config.DefaultStore, "none")
    /\ UNCHANGED cfgFile

\* ConfigManager.SetDefaultStore(storeName)
SetDefaultStore(storeName, outcome) ==
    LET l == LoadConfig(cfgFile) IN
    IF l.err # "none"
    THEN /\ cfgRet' = CfgResult("SetDefaultStore", storeName, l.err)
         /\ UNCHANGED cfgFile
    ELSE IF ~StoreExists(l.config, storeName)
    THEN /\ cfgRet' = CfgResult("SetDefaultStore", storeName, "store does not exist")
         /\ UNCHANGED cfgFile
    ELSE /\ cfgFile' = SaveConfigFile(cfgFile, MarkDefault(l.config, storeName), outcome)
         /\ cfgRet' = CfgResult("SetDefaultStore", storeName, SaveConfigErr(outcome))

(***************************************************************************)
(* Strings, entries and their stored form                                  *)
(*                                                                         *)
(* A Go string is a sequence of characters.  The element "\\xFF" stands    *)
(* for a byte that is not valid UTF-8 and "\\uFFFD" for the replacement    *)
(* rune encoding/json writes in its place.                                 *)
(***************************************************************************)

EmptyStr == <<>>

InvalidByte == "\\xFF"
ReplacementRune == "\\uFFFD"

\* The service names used as inputs.
SvcDb == <<"d", "b">>
SvcSpace == <<"a", " ", "b">>
SvcUnder == <<"a", "_", "b">>
SvcDash == <<"a", "-", "b">>

\* The instants used as inputs, in units of HoursPerUnit hours.
HoursPerDay == 24
HoursPerUnit == HoursPerDay \div 2

\* entities.PasswordProfile behind a pointer (nil |-> TRUE is the nil pointer).
NilProfile == [nil |-> TRUE, Length |-> 0, IncludeUpper |-> FALSE]
SomeProfile == [nil |-> FALSE, Length |-> DefaultProfileLength, IncludeUpper |-> TRUE]

\* entities.AutoRotationConfig behind a pointer.
NilAutoRotation ==
    [nil |-> TRUE, Enabled |-> FALSE, IntervalDays |-> 0, NextRotationAt |-> 0,
     NotifyDaysBefore |-> 0, AutoGenerate |-> FALSE, PasswordProfile |-> NilProfile]

AutoRotationAt(enabled, next) ==
    [nil |-> FALSE, Enabled |-> enabled,
     IntervalDays |-> DefaultRotationIntervalDays, NextRotationAt |-> next,
     NotifyDaysBefore |-> DefaultRotationNotifyDaysBefore, AutoGenerate |-> TRUE,
     PasswordProfile |-> SomeProfile]

\* map[string]string: the nil map, or a map.
NilMap == [nil |-> TRUE, kv |-> <<>>]
EmptyMap == [nil |-> FALSE, kv |-> <<>>]
OneKeyMap == [nil |-> FALSE, kv |-> <<<<<<"e", "n", "v">>, <<"p", "r", "o", "d">>>>>>]

\* entities.RotationRecord
RotationRecord(at, reason) ==
    [RotatedAt |-> at, PreviousHash |-> <<"h", "0">>, Reason |-> reason,
     GeneratedBy |-> <<"p", "g">>]

\* entities.PasswordEntry.  A slice is its sequence of elements (a nil slice
\* and an empty one are both <<>>).
PasswordEntry(service, username, password, notes, metadata, rotation, history) ==
    [Service |-> service, Username |-> username, Password |-> password,
     URL |-> EmptyStr, Notes |-> notes, Metadata |-> metadata,
     CreatedAt |-> 1, UpdatedAt |-> 1, GeneratedBy |-> <<"p", "g">>,
     AutoRotation |-> rotation, RotationHistory |-> history]

\* The zero PasswordEntry, what json.Unmarshal leaves when no key matches.
ZeroEntry ==
    [Service |-> EmptyStr, Username |-> EmptyStr, Password |-> EmptyStr,
     URL |-> EmptyStr, Notes |-> EmptyStr, Metadata |-> NilMap,
     CreatedAt |-> 0, UpdatedAt |-> 0, GeneratedBy |-> EmptyStr,
     AutoRotation |-> NilAutoRotation, RotationHistory |-> <<>>]

PwOne == <<"p", "1">>
PwTwo == <<"p", "2">>
PwInvalid == <<"p", InvalidByte>>
UserAl == <<"a", "l">>

BaseEntry(service, password) ==
    PasswordEntry(service, UserAl, password, EmptyStr, NilMap, NilAutoRotation, <<>>)

\* encoding/json coerces a string to valid UTF-8 when it writes it.
ToValidUTF8(s) ==
    [i \in DOMAIN s |-> IF s[i] = InvalidByte THEN ReplacementRune ELSE s[i]]

JsonString(s) == ToValidUTF8(s)

JsonMap(m) ==
    [null |-> m.nil,
     obj |-> [i \in DOMAIN m.kv |-> <<JsonString(m.kv[i][1]), JsonString(m.kv[i][2])>>]]

JsonProfile(p) == [p EXCEPT !.nil = FALSE]

JsonAutoRotation(a) ==
    ("enabled" :> a.Enabled) @@ ("interval_days" :> a.IntervalDays) @@
    ("next_rotation_at" :> a.NextRotationAt) @@
    ("notify_days_before" :> a.NotifyDaysBefore) @@
    ("auto_generate" :> a.AutoGenerate) @@
    (IF a.PasswordProfile.nil THEN <<>>
     ELSE ("password_profile" :> JsonProfile(a.PasswordProfile)))

JsonRotationRecord(rec) ==
    [rotated_at |-> rec.RotatedAt, previous_hash |-> JsonString(rec.PreviousHash),
     reason |-> JsonString(rec.Reason), generated_by |-> JsonString(rec.GeneratedBy)]

\* json.MarshalIndent(StoredPasswordEntry{...}): the JSON object, a function
\* from the keys written to their values.  Keys tagged omitempty are left
\* out when the field is empty.
JsonMarshalEntry(entry) ==
    ("service" :> JsonString(entry.Service)) @@
    ("password" :> JsonString(entry.Password)) @@
    ("metadata" :> JsonMap(entry.Metadata)) @@
    ("created_at" :> entry.CreatedAt) @@
    ("updated_at" :> entry.UpdatedAt) @@
    ("generated_by" :> JsonString(entry.GeneratedBy)) @@
    (IF entry.Username = EmptyStr THEN <<>>
     ELSE ("username" :> JsonString(entry.Username))) @@
    (IF entry.URL = EmptyStr THEN <<>> ELSE ("url" :> JsonString(entry.URL))) @@
    (IF entry.Notes = EmptyStr THEN <<>> ELSE ("notes" :> JsonString(entry.Notes))) @@
    (IF entry.AutoRotation.nil THEN <<>>
     ELSE ("auto_rotation" :> JsonAutoRotation(entry.AutoRotation))) @@
    (IF entry.RotationHistory = <<>> THEN <<>>
     ELSE ("rotation_history" :>
             [i \in DOMAIN entry.RotationHistory |->
                JsonRotationRecord(entry.RotationHistory[i])]))

Key(doc, k, zero) == IF k \in DOMAIN doc THEN doc[k] ELSE zero

UnjsonMap(j) == [nil |-> j.null, kv |-> j.obj]

UnjsonAutoRotation(j) ==
    [nil |-> FALSE, Enabled |-> j["enabled"], IntervalDays |-> j["interval_days"],
     NextRotationAt |-> j["next_rotation_at"],
     NotifyDaysBefore |-> j["notify_days_before"],
     AutoGenerate |-> j["auto_generate"],
     PasswordProfile |-> Key(j, "password_profile", NilProfile)]

UnjsonRotationRecord(j) ==
    [RotatedAt |-> j.rotated_at, PreviousHash |-> j.previous_hash,
     Reason |-> j.reason, GeneratedBy |-> j.generated_by]

\* json.Unmarshal(data, &storedEntry): a key that is absent leaves the
\* field at its zero value.
JsonUnmarshalEntry(doc) ==
    [Service |-> Key(doc, "service", EmptyStr),
     Username |-> Key(doc, "username", EmptyStr),
     Password |-> Key(doc, "password", EmptyStr),
     URL |-> Key(doc, "url", EmptyStr),
     Notes |-> Key(doc, "notes", EmptyStr),
     Metadata |-> IF "metadata" \in DOMAIN doc THEN UnjsonMap(doc["metadata"]) ELSE NilMap,
     CreatedAt |-> Key(doc, "created_at", 0),
     UpdatedAt |-> Key(doc, "updated_at", 0),
     GeneratedBy |-> Key(doc, "generated_by", EmptyStr),
     AutoRotation |-> IF "auto_rotation" \in DOMAIN doc
                      THEN UnjsonAutoRotation(doc["auto_rotation"])
                      ELSE NilAutoRotation,
     RotationHistory |-> IF "rotation_history" \in DOMAIN doc
                         THEN [i \in DOMAIN doc["rotation_history"] |->
                                 UnjsonRotationRecord(doc["rotation_history"][i])]
                         ELSE <<>>]

\* json.MarshalIndent(entities.PasswordStore{...}): the struct has no json
\* tags, so the keys are the field names.
JsonMarshalStore(name, dir) == ("Name" :> name) @@ ("LocalPath" :> dir)

(***************************************************************************)
(* File names                                                              *)
(***************************************************************************)

\* sanitizeFileName
UnsafeChars == {"/", "\\", ":", "*", "?", "\"", "<", ">", "|", " "}

sanitizeFileName(name) ==
    [i \in DOMAIN name |-> IF name[i] \in UnsafeChars THEN "_" ELSE name[i]]

\* unsanitizeFileName
unsanitizeFileName(filename) ==
    [i \in DOMAIN filename |-> IF filename[i] = "_" THEN " " ELSE filename[i]]

GpgSuffix == <<".", "g", "p", "g">>

\* es.sanitizeFileName(name) + ".gpg"
EntryFileName(name) == sanitizeFileName(name) \o GpgSuffix

\* strings.HasSuffix / strings.TrimSuffix
HasSuffix(s, suffix) ==
    /\ Len(s) >= Len(suffix)
    /\ SubSeq(s, Len(s) - Len(suffix) + 1, Len(s)) = suffix

TrimSuffix(s, suffix) ==
    IF HasSuffix(s, suffix) THEN SubSeq(s, 1, Len(s) - Len(suffix)) ELSE s

\* ".passgen-store" + ".gpg" (InitializeStore, saveStoreMetadata)
StoreMetadataName == <<".", "p", "a", "s", "s", "g", "e", "n", "-", "s", "t", "o", "r", "e">>
StoreMetadataFile == StoreMetadataName \o GpgSuffix

\* ".gitignore" (GitService.InitializeRepository)
GitIgnoreFile == <<".", "g", "i", "t", "i", "g", "n", "o", "r", "e">>

(***************************************************************************)
(* Directories and files                                                   *)
(***************************************************************************)

\* The storage objects: one per machine holding a copy of the store.
Replicas == {"A", "B"}

\* The names handed to InitializeStore.
StoreNames == {"", "work"}

\* The service names handed to the operations.
Services == {SvcDb, SvcSpace, SvcUnder, SvcDash}

\* es.storePath, and filepath.Join(es.storePath, storeName): Join drops an
\* empty element, so the empty name gives the store path itself.
StorePath == <<>>
JoinPath(dir, name) == IF name = "" THEN dir ELSE Append(dir, name)
StoreDir(name) == JoinPath(StorePath, name)

Dirs == {StoreDir(n) : n \in StoreNames}

Files == {EntryFileName(s) : s \in Services} \cup {StoreMetadataFile, GitIgnoreFile}

\* The content of a file.  gpg output is randomized: gen tells apart two
\* encryptions of the same plaintext.
Absent == [kind |-> "absent", plain |-> <<>>, gen |-> 0]
Blob(kind, plain, gen) == [kind |-> kind, plain |-> plain, gen |-> gen]
EmptyDir == [f \in Files |-> Absent]

Present(dir) == {f \in Files : dir[f].kind # "absent"}

\* A commit: who made it, its number, the paths it changes.
Commit(by, n, touched) == [by |-> by, n |-> n, touched |-> touched]

\* A git repository: HEAD's history and tree, the index, and the state of
\* an unfinished merge.
NoRepo ==
    [exists |-> FALSE, head |-> {}, tree |-> EmptyDir, index |-> EmptyDir,
     unmerged |-> {}, merging |-> FALSE, mergeHead |-> {}, theirs |-> EmptyDir]

Touched(commits) == UNION {c.touched : c \in commits}

\* The number the next commit of replica r gets.
NextCommit(r) == Cardinality({c \in repo[r].head : c.by = r}) + 1

\* A gen no copy of file f carries anywhere: fresh gpg output equals no
\* existing ciphertext.
GensInUse(f) ==
    {disk[r][d][f].gen : r \in Replicas, d \in Dirs} \cup
    {repo[r].tree[f].gen : r \in Replicas} \cup
    {repo[r].index[f].gen : r \in Replicas} \cup
    {repo[r].theirs[f].gen : r \in Replicas} \cup
    {remote.tree[f].gen}

FreshGen(f) ==
    CHOOSE n \in 1..(Cardinality(GensInUse(f)) + 1) :
        /\ n \notin GensInUse(f)
        /\ \A m \in 1..(n - 1) : m \in GensInUse(f)

(***************************************************************************)
(* GPGService                                                              *)
(***************************************************************************)

\* GPGService.Encrypt: the armored ciphertext of data.
Encrypt(data, gen) == Blob("gpg", data, gen)

\* GPGService.Decrypt: fails on anything that is not a gpg message, or when
\* the keyring cannot decrypt (keyOK = FALSE).
Decrypt(blob, keyOK) ==
    IF blob.kind = "gpg" /\ keyOK
    THEN [err |-> "none", data |-> blob.plain]
    ELSE [err |-> "GPG decryption failed", data |-> <<>>]

(***************************************************************************)
(* GitService: every operation runs git in g.repoPath                      *)
(***************************************************************************)

\* git status --porcelain: the paths that differ between the working tree,
\* the index and HEAD, and the unmerged paths.
StatusPaths(rp, wt) ==
    {f \in Files : wt[f] # rp.index[f] \/ rp.index[f] # rp.tree[f]} \cup rp.unmerged

\* GitService.HasChanges
HasChanges(rp, wt) == StatusPaths(rp, wt) # {}

\* GitService.GetConflicts: git diff --name-only --diff-filter=U
GetConflicts(rp) == rp.unmerged

\* GitService.IsRepository
IsRepository(rp) == rp.exists

\* GitService.AddFiles(files): git add fails on a path that is neither in
\* the working tree nor in the index.
AddFiles(rp, wt, files) ==
    IF ~rp.exists \/ \E f \in files : wt[f].kind = "absent" /\ rp.index[f].kind = "absent"
    THEN [err |-> "failed to add files", repo |-> rp]
    ELSE [err |-> "none",
          repo |-> [rp EXCEPT !.index = [f \in Files |-> IF f \in files THEN wt[f] ELSE @[f]],
                              !.unmerged = @ \ files]]

\* GitService.AddFiles({"."}): every path of the directory.
AddAll(rp, wt) ==
    IF ~rp.exists
    THEN [err |-> "failed to add files", repo |-> rp]
    ELSE [err |-> "none", repo |-> [rp EXCEPT !.index = wt, !.unmerged = {}]]

\* GitService.Commit: git commit fails with unmerged paths, and with
\* nothing staged unless it concludes a merge.
CommitPaths(rp) ==
    IF rp.merging
    THEN {f \in Files : rp.index[f] # rp.tree[f] /\ rp.index[f] # rp.theirs[f]}
    ELSE {f \in Files : rp.index[f] # rp.tree[f]}

GitCommit(rp, by, n) ==
    IF ~rp.exists \/ rp.unmerged # {}
       \/ (~rp.merging /\ {f \in Files : rp.index[f] # rp.tree[f]} = {})
    THEN [err |-> "failed to commit", repo |-> rp]
    ELSE [err |-> "none",
          repo |-> [rp EXCEPT !.head = @ \cup rp.mergeHead \cup {Commit(by, n, CommitPaths(rp))},
                              !.tree = rp.index,
                              !.merging = FALSE,
                              !.mergeHead = {},
                              !.theirs = EmptyDir]]

\* The errors of Pull: "failed to pull from remote: <git's output>", by what
\* the output says.
PullUnreachable == "failed to pull from remote: could not read from remote repository"
PullRefused == "failed to pull from remote: refusing to merge"
PullConflict == "failed to pull from remote: automatic merge failed"

\* What git pull reports: the error, the repository and working tree it
\* leaves, and the paths its output names as conflicting.
PullResult(err, rp, wt, conflicts) ==
    [err |-> err, repo |-> rp, wt |-> wt, conflicts |-> conflicts]

\* The tree, index and working tree after checking out the remote's version
\* of the paths in take.
TakeTheirs(dir, rem, take) == [f \in Files |-> IF f \in take THEN rem.tree[f] ELSE dir[f]]

\* The text git leaves in a conflicting file: both versions between markers.
ConflictMarked(f) == Blob("conflict", <<>>, 0)

\* GitService.Pull: git pull <remote> <branch> fetches and merges (git set to
\* reconcile divergent branches by merging, its long-standing default).  It is
\* refused during an unfinished merge, when the histories are unrelated and
\* when local changes would be overwritten; it fast-forwards when nothing is
\* local, and otherwise merges: paths changed on both sides conflict, and
\* then git exits with failure and leaves the merge unfinished.
GitPull(rp, wt, rem, by, n, netOK) ==
    LET localOnly == rp.head \ rem.head
        remoteOnly == rem.head \ rp.head
        remoteChanged == Touched(remoteOnly)
        localChanged == Touched(localOnly)
        stagedPaths == {f \in Files : rp.index[f] # rp.tree[f]}
        uncommitted == {f \in Files : wt[f] # rp.tree[f]} \cup stagedPaths
        conflicts == {f \in localChanged \cap remoteChanged : rp.tree[f] # rem.tree[f]}
    IN
    IF ~rp.exists \/ ~netOK \/ rem.head = {}
    THEN PullResult(PullUnreachable, rp, wt, {})
    ELSE IF rp.merging \/ rp.unmerged # {}
    THEN PullResult(PullRefused, rp, wt, {})
    ELSE IF remoteOnly = {}
    THEN PullResult("none", rp, wt, {})
    ELSE IF rp.head \cap rem.head = {} \/ uncommitted \cap remoteChanged # {}
            \/ (localOnly # {} /\ stagedPaths # {})
    THEN PullResult(PullRefused, rp, wt, {})
    ELSE IF localOnly = {}
    THEN PullResult("none",
             [rp EXCEPT !.head = rem.head,
                        !.tree = TakeTheirs(rp.tree, rem, remoteChanged),
                        !.index = TakeTheirs(rp.index, rem, remoteChanged)],
             TakeTheirs(wt, rem, remoteChanged), {})
    ELSE IF conflicts = {}
    THEN PullResult("none",
             [rp EXCEPT !.head = @ \cup rem.head \cup {Commit(by, n, {})},
                        !.tree = TakeTheirs(rp.tree, rem, remoteChanged),
                        !.index = TakeTheirs(rp.index, rem, remoteChanged)],
             TakeTheirs(wt, rem, remoteChanged), {})
    ELSE PullResult(PullConflict,
             [rp EXCEPT !.index = TakeTheirs(rp.index, rem, remoteChanged \ conflicts),
                        !.unmerged = conflicts,
                        !.merging = TRUE,
                        !.mergeHead = rem.head,
                        !.theirs = rem.tree],
             [f \in Files |-> IF f \in conflicts THEN ConflictMarked(f)
                              ELSE IF f \in remoteChanged THEN rem.tree[f] ELSE wt[f]],
             conflicts)

\* GitService.Push: git push <remote> <branch> is rejected unless the
\* remote branch is an ancestor of HEAD.
GitPush(rp, rem, netOK) ==
    IF ~rp.exists \/ ~netOK \/ rp.head = {}
    THEN [err |-> "failed to push to remote: could not read from remote repository",
          remote |-> rem]
    ELSE IF ~(rem.head \subseteq rp.head)
    THEN [err |-> "failed to push to remote: rejected", remote |-> rem]
    ELSE [err |-> "none", remote |-> [head |-> rp.head, tree |-> rp.tree]]

(***************************************************************************)
(* EncryptedStorage                                                        *)
(***************************************************************************)

\* The result of the last call: the operation, the replica, the service
\* named, the error ("none" for nil), the entry handed in, the values
\* returned, the git commands Sync ran, the paths its error names, and the
\* git commands of GetStatus that exited with failure.
Result(op, r, svc, err) ==
    [op |-> op, r |-> r, svc |-> svc, err |-> err, arg |-> <<>>, out |-> <<>>,
     cmds |-> <<>>, paths |-> {}, failed |-> {}]

\* The working tree of the replica's git service.
WorkTree(r) == disk[r][repoPath[r]]

\* EncryptedStorage.InitializeStore(storeName)
InitOutcomes == {"ok", "git_init", "commit"}

InitializeStore(r, outcome) ==
    LET storeDir == StoreDir(initName[r])
        wt0 == disk[r][storeDir]
        needInit == ~IsRepository(repo[r])
        rp1 == IF needInit THEN [NoRepo EXCEPT !.exists = TRUE] ELSE repo[r]
        wt1 == IF needInit THEN [wt0 EXCEPT ![GitIgnoreFile] = Blob("text", <<>>, 0)] ELSE wt0
        wt2 == [wt1 EXCEPT ![StoreMetadataFile] =
                   Encrypt(JsonMarshalStore(initName[r], storeDir), FreshGen(StoreMetadataFile))]
        added == AddAll(rp1, wt2)
        committed == GitCommit(added.repo, r, NextCommit(r))
        err == CASE outcome = "mkdir" -> "failed to create store directory"
                 [] outcome = "git_init" -> "failed to initialize git repository"
                 [] outcome \in {"encrypt", "write"} -> "failed to save store metadata"
                 [] outcome = "add" \/ added.err # "none" -> "failed to add files to git"
                 [] outcome = "commit" \/ committed.err # "none" -> "failed to commit initial files"
                 [] OTHER -> "none"
    IN
    /\ sync[r].pc = "idle"
    /\ outcome = "git_init" => needInit
    /\ repoPath' = IF outcome = "mkdir" THEN repoPath ELSE [repoPath EXCEPT ![r] = storeDir]
    /\ repo' = [repo EXCEPT ![r] =
          CASE outcome \in {"mkdir", "git_init"} -> repo[r]
            [] outcome \in {"encrypt", "write"} -> rp1
            [] err = "failed to add files to git" -> rp1
            [] err = "failed to commit initial files" -> added.repo
            [] OTHER -> committed.repo]
    /\ disk' = [disk EXCEPT ![r][storeDir] =
          CASE outcome \in {"mkdir", "git_init"} -> wt0
            [] outcome \in {"encrypt", "write"} -> wt1
            [] OTHER -> wt2]
    /\ initialized' = [initialized EXCEPT ![r] = @ \/ err = "none"]
    /\ ret' = Result("InitializeStore", r, EmptyStr, err)
    /\ UNCHANGED <<initName, remote, sync>>

\* EncryptedStorage.SavePassword(entry)
SaveOutcomes2 == {"ok", "encrypt", "commit"}

SavePassword(r, entry, outcome) ==
    LET fileName == EntryFileName(entry.Service)
        blob == Encrypt(JsonMarshalEntry(entry), FreshGen(fileName))
        disk1 == [disk[r] EXCEPT ![StorePath][fileName] = blob]
        added == AddFiles(repo[r], disk1[repoPath[r]], {fileName})
        committed == GitCommit(added.repo, r, NextCommit(r))
        err == CASE ~initialized[r] -> "store not initialized"
                 [] outcome = "encrypt" -> "failed to encrypt password entry"
                 [] outcome = "write" -> "failed to write encrypted file"
                 [] outcome = "add" \/ added.err # "none" -> "failed to add file to git"
                 [] outcome = "commit" \/ committed.err # "none" -> "failed to commit password entry"
                 [] OTHER -> "none"
        written == err \notin {"store not initialized", "failed to encrypt password entry",
                               "failed to write encrypted file"}
    IN
    /\ sync[r].pc = "idle"
    /\ disk' = IF written THEN [disk EXCEPT ![r] = disk1] ELSE disk
    /\ repo' = [repo EXCEPT ![r] =
          IF ~written \/ err = "failed to add file to git" THEN repo[r]
          ELSE IF err = "failed to commit password entry" THEN added.repo
          ELSE committed.repo]
    /\ ret' = [Result("SavePassword", r, entry.Service, err) EXCEPT !.arg = <<entry>>]
    /\ UNCHANGED <<initName, initialized, repoPath, remote, sync>>

\* EncryptedStorage.DeletePassword(name)
DeleteOutcomes == {"ok", "remove", "commit"}

DeletePassword(r, name, outcome) ==
    LET fileName == EntryFileName(name)
        exists == disk[r][StorePath][fileName].kind # "absent"
        disk1 == [disk[r] EXCEPT ![StorePath][fileName] = Absent]
        added == AddFiles(repo[r], disk1[repoPath[r]], {fileName})
        committed == GitCommit(added.repo, r, NextCommit(r))
        err == CASE ~initialized[r] -> "store not initialized"
                 [] ~exists -> "password entry not found"
                 [] outcome = "remove" -> "failed to remove password file"
                 [] outcome = "add" \/ added.err # "none" -> "failed to add file removal to git"
                 [] outcome = "commit" \/ committed.err # "none" -> "failed to commit password removal"
                 [] OTHER -> "none"
        removed == err \notin {"store not initialized", "password entry not found",
                               "failed to remove password file"}
    IN
    /\ sync[r].pc = "idle"
    /\ disk' = IF removed THEN [disk EXCEPT ![r] = disk1] ELSE disk
    /\ repo' = [repo EXCEPT ![r] =
          IF ~removed \/ err = "failed to add file removal to git" THEN repo[r]
          ELSE IF err = "failed to commit password removal" THEN added.repo
          ELSE committed.repo]
    /\ ret' = Result("DeletePassword", r, name, err)
    /\ UNCHANGED <<initName, initialized, repoPath, remote, sync>>

\* EncryptedStorage.LoadPassword(name), reading the directory root, which
\* is es.storePath.
LoadPasswordFrom(root, name, keyOK) ==
    LET file == root[EntryFileName(name)]
        dec == Decrypt(file, keyOK)
    IN
    IF file.kind = "absent"
    THEN [err |-> "password entry not found", entry |-> ZeroEntry]
    ELSE IF dec.err # "none"
    THEN [err |-> "failed to decrypt password entry", entry |-> ZeroEntry]
    ELSE [err |-> "none", entry |-> JsonUnmarshalEntry(dec.data)]

\* int(d.Hours() / 24) for a duration of units: the conversion truncates
\* toward zero.
TruncDiv(a, b) == IF a >= 0 THEN a \div b ELSE -((-a) \div b)
WholeDays(units) == TruncDiv(units * HoursPerUnit, HoursPerDay)

\* entities.AutoRotationInfo behind a pointer.
NilRotationInfo ==
    [nil |-> TRUE, Enabled |-> FALSE, IntervalDays |-> 0, NextRotation |-> 0,
     DaysUntilNext |-> 0]

\* A PasswordMetadata whose StrengthInfo is taken from the secret.
EntryMetadataWithStrength(entry, days) ==
    [Service |-> entry.Service, Username |-> entry.Username, URL |-> entry.URL,
     Notes |-> entry.Notes, CreatedAt |-> entry.CreatedAt, UpdatedAt |-> entry.UpdatedAt,
     AutoRotation |->
        IF ~entry.AutoRotation.nil /\ entry.AutoRotation.Enabled
        THEN [nil |-> FALSE, Enabled |-> TRUE,
              IntervalDays |-> entry.AutoRotation.IntervalDays,
              NextRotation |-> entry.AutoRotation.NextRotationAt,
              DaysUntilNext |-> days]
        ELSE NilRotationInfo,
     StrengthInfo |-> entry.Password]

\* The PasswordMetadata both ListPasswords and GetPasswordMetadata build
\* from a loaded entry; they differ in the days they pass.
EntryMetadata(entry, days) ==
    [Service |-> entry.Service, Username |-> entry.Username, URL |-> entry.URL,
     Notes |-> entry.Notes, CreatedAt |-> entry.CreatedAt, UpdatedAt |-> entry.UpdatedAt,
     AutoRotation |->
        IF ~entry.AutoRotation.nil /\ entry.AutoRotation.Enabled
        THEN [nil |-> FALSE, Enabled |-> TRUE,
              IntervalDays |-> entry.AutoRotation.IntervalDays,
              NextRotation |-> entry.AutoRotation.NextRotationAt,
              DaysUntilNext |-> days]
        ELSE NilRotationInfo,
     StrengthInfo |-> EmptyStr]

\* Byte order of the characters that occur in file names.
AsciiOrder ==
    <<" ", "\"", "*", "-", ".", "/", ":", "<", ">", "?", "\\", "_",
      "a", "b", "d", "e", "g", "i", "n", "o", "p", "r", "s", "t", "|">>

CharRanks ==
    [c \in {AsciiOrder[i] : i \in 1..Len(AsciiOrder)} |->
        CHOOSE i \in 1..Len(AsciiOrder) : AsciiOrder[i] = c]

CharRank(c) == CharRanks[c]

RECURSIVE NameLess(_, _)
NameLess(a, b) ==
    IF a = <<>> THEN b # <<>>
    ELSE IF b = <<>> THEN FALSE
    ELSE IF CharRank(a[1]) # CharRank(b[1]) THEN CharRank(a[1]) < CharRank(b[1])
    ELSE NameLess(Tail(a), Tail(b))

\* os.ReadDir: the directory entries sorted by file name.
RECURSIVE ReadDir(_)
ReadDir(names) ==
    IF names = {} THEN <<>>
    ELSE LET first == CHOOSE x \in names : \A y \in names \ {x} : NameLess(x, y)
         IN <<first>> \o ReadDir(names \ {first})

\* The loop of ListPasswords over the directory entries.
RECURSIVE ListLoop(_, _, _, _)
ListLoop(entries, root, now, keyOK) ==
    IF entries = <<>> THEN <<>>
    ELSE LET rest == ListLoop(Tail(entries), root, now, keyOK)
             name == unsanitizeFileName(TrimSuffix(Head(entries), GpgSuffix))
             loaded == LoadPasswordFrom(root, name, keyOK)
         IN IF ~HasSuffix(Head(entries), GpgSuffix) \/ loaded.err # "none"
            THEN rest
            ELSE <<EntryMetadata(loaded.entry,
                       WholeDays(loaded.entry.AutoRotation.NextRotationAt - now))>> \o rest

\* EncryptedStorage.ListPasswords()
ListPasswordsOf(root, now, keyOK) == ListLoop(ReadDir(Present(root)), root, now, keyOK)

\* EncryptedPasswordStoreRepository.GetPasswordMetadata over a registered
\* storage whose store path holds root.
GetPasswordMetadataOf(root, name, keyOK) ==
    LET loaded == LoadPasswordFrom(root, name, keyOK) IN
    IF loaded.err # "none" THEN [err |-> loaded.err, out |-> <<>>]
    ELSE [err |-> "none",
          out |-> <<EntryMetadata(loaded.entry,
                      WholeDays(loaded.entry.AutoRotation.NextRotationAt
                                - loaded.entry.CreatedAt))>>]

LoadPassword(r, name, keyOK) ==
    LET loaded == LoadPasswordFrom(disk[r][StorePath], name, keyOK) IN
    /\ sync[r].pc = "idle"
    /\ ret' = IF ~initialized[r]
              THEN Result("LoadPassword", r, name, "store not initialized")
              ELSE [Result("LoadPassword", r, name, loaded.err) EXCEPT
                      !.out = IF loaded.err = "none" THEN <<loaded.entry>> ELSE <<>>]
    /\ UNCHANGED <<initName, initialized, repoPath, disk, repo, remote, sync>>

ListPasswords(r, now, keyOK) ==
    /\ sync[r].pc = "idle"
    /\ ret' = IF ~initialized[r]
              THEN Result("ListPasswords", r, EmptyStr, "store not initialized")
              ELSE [Result("ListPasswords", r, EmptyStr, "none") EXCEPT
                      !.out = ListPasswordsOf(disk[r][StorePath], now, keyOK)]
    /\ UNCHANGED <<initName, initialized, repoPath, disk, repo, remote, sync>>

\* A storage is registered with the repository once InitializeStore succeeded.
GetPasswordMetadata(r, name, keyOK) ==
    LET got == GetPasswordMetadataOf(disk[r][StorePath], name, keyOK) IN
    /\ sync[r].pc = "idle"
    /\ ret' = IF ~initialized[r]
              THEN Result("GetPasswordMetadata", r, name, "store not found")
              ELSE [Result("GetPasswordMetadata", r, name, got.err) EXCEPT !.out = got.out]
    /\ UNCHANGED <<initName, initialized, repoPath, disk, repo, remote, sync>>

\* EncryptedPasswordStoreRepository.AddPassword and UpdatePassword hand the
\* entry to SavePassword.
AddPassword(r, entry, outcome) == SavePassword(r, entry, outcome)

UpdatePassword(r, entry, outcome) == SavePassword(r, entry, outcome)

\* The repository methods that are placeholders: each returns its error and
\* reads or writes nothing.
Placeholder(op, r, svc) ==
    /\ sync[r].pc = "idle"
    /\ ret' = Result(op, r, svc, op \o " not implemented")
    /\ UNCHANGED <<initName, initialized, repoPath, disk, repo, remote, sync>>

\* EncryptedPasswordStoreRepository.GetRotationStatus(storeName)
GetRotationStatus(r) == Placeholder("GetRotationStatus", r, EmptyStr)

\* EncryptedPasswordStoreRepository.CheckDueRotations(storeName)
CheckDueRotations(r) == Placeholder("CheckDueRotations", r, EmptyStr)

\* EncryptedPasswordStoreRepository.RotatePassword(storeName, service, reason)
RotatePassword(r, service, reason) == Placeholder("RotatePassword", r, service)

\* Where a replica's Sync call stands: idle or between Pull and the rest;
\* how its last Pull ended; the commits it held when Sync last returned nil;
\* and what each replica had synced when its last Sync call began.
NotSyncing ==
    [pc |-> "idle", pull |-> "none", synced |-> {}, began |-> [o \in Replicas |-> {}]]

\* A Sync that goes on whatever Pull returned.
SyncContinuesAlways(pullErr) == TRUE

\* Sync goes on after Pull only when Pull returned no error (lines 301-303).
SyncContinues(pullErr) == pullErr = "none"

\* EncryptedStorage.Sync(remote, branch), up to the return of Pull.
SyncPull(r, netOK) ==
    LET pulled == GitPull(repo[r], WorkTree(r), remote, r, NextCommit(r), netOK) IN
    /\ sync[r].pc = "idle"
    /\ IF ~initialized[r]
       THEN /\ ret' = Result("Sync", r, EmptyStr, "store not initialized")
            /\ UNCHANGED <<repo, disk, sync>>
       ELSE /\ repo' = [repo EXCEPT ![r] = pulled.repo]
            /\ disk' = [disk EXCEPT ![r][repoPath[r]] = pulled.wt]
            /\ sync' = [sync EXCEPT
                 ![r].pc = IF SyncContinues(pulled.err) THEN "pulled" ELSE "idle",
                 ![r].pull = IF pulled.err = "none" THEN "ok" ELSE "failed",
                 ![r].began = [o \in Replicas |-> sync[o].synced]]
            /\ ret' = [Result("Sync", r, EmptyStr,
                              IF SyncContinues(pulled.err) THEN "running" ELSE pulled.err)
                         EXCEPT !.cmds = <<"pull">>, !.paths = pulled.conflicts]
    /\ UNCHANGED <<initName, initialized, repoPath, remote>>

\* Sync pushes when no path is unmerged and git status reports changes
\* (lines 305-321).
SyncPushes(rp, wt) == GetConflicts(rp) = {} /\ HasChanges(rp, wt)

\* EncryptedStorage.Sync(remote, branch), from GetConflicts to the return.
SyncPush(r, netOK) ==
    LET pushed == GitPush(repo[r], remote, netOK)
        pushes == SyncPushes(repo[r], WorkTree(r))
        err == IF pushes THEN pushed.err
               ELSE IF GetConflicts(repo[r]) # {} THEN "merge conflicts detected in files"
               ELSE "none"
    IN
    /\ sync[r].pc = "pulled"
    /\ remote' = IF pushes THEN pushed.remote ELSE remote
    /\ ret' = [Result("Sync", r, EmptyStr, err) EXCEPT
                 !.cmds = IF pushes THEN <<"pull", "push">> ELSE <<"pull">>,
                 !.paths = GetConflicts(repo[r])]
    /\ sync' = [sync EXCEPT ![r].pc = "idle",
                            ![r].synced = IF err = "none" THEN repo[r].head ELSE @]
    /\ UNCHANGED <<initName, initialized, repoPath, disk, repo>>

(***************************************************************************)
(* EncryptedPasswordStoreRepository and the store commands of the CLI      *)
(***************************************************************************)

\* The store name given to the init command, and the names given to the
\* other commands and to the repository: that one and one never initialized.
RepoStoreNames == {"work"}
OpStoreNames == RepoStoreNames \cup {"personal"}

\* The EncryptedStorage handleInit constructs for a store name
\* (NewEncryptedStorage over ~/.passgen/stores/<name>).
StorageOf(name) == IF name = "work" THEN "A" ELSE "B"

RepoResult(op, name, err) == [op |-> op, name |-> name, err |-> err]

\* A lookup that resolves any name once some storage is registered.
RegisteredAny(name) == storages # {}

\* storage, exists := r.storages[storeName]
Registered(name) == name \in storages

\* The return of a repository method when the lookup fails.
NotFound(op, name) ==
    /\ repoRet' = RepoResult(op, name, "store not found")
    /\ UNCHANGED <<storeVars, storages, remotes>>

\* GitService.AddRemote(name, url): git remote add fails outside a
\* repository and for a remote that exists.
AddRemote(rp, rems, remoteName) ==
    IF ~IsRepository(rp) \/ remoteName \in rems
    THEN [err |-> "failed to add remote", rems |-> rems]
    ELSE [err |-> "none", rems |-> rems \cup {remoteName}]

\* EncryptedStorage.ConnectRemote(remoteName, remoteURL)
ConnectRemote(r, remoteName) ==
    LET added == AddRemote(repo[r], remotes[r], remoteName) IN
    /\ sync[r].pc = "idle"
    /\ ret' = Result("ConnectRemote", r, EmptyStr,
                     IF ~initialized[r] THEN "store not initialized" ELSE added.err)
    /\ remotes' = IF initialized[r] THEN [remotes EXCEPT ![r] = added.rems] ELSE remotes
    /\ UNCHANGED <<initName, initialized, repoPath, disk, repo, remote, sync>>

\* The git commands of GetStatus.
StatusCommands == {"rev-parse", "remote get-url", "log", "status"}

\* The commands of GetStatus that exit with failure in this repository:
\* all of them outside a repository, rev-parse HEAD and log before the
\* first commit, remote get-url without an origin; and those in fails,
\* which fail for a reason of their own.
StatusFailures(rp, rems, fails) ==
    fails
    \cup (IF ~IsRepository(rp) THEN StatusCommands ELSE {})
    \cup (IF rp.head = {} THEN {"rev-parse", "log"} ELSE {})
    \cup (IF "origin" \notin rems THEN {"remote get-url"} ELSE {})

\* GitService.GetStatus(): a field is set when its command exits with
\* success and is left empty otherwise; the error returned is nil.
GetStatus(rp, wt, rems, fails) ==
    LET failed == StatusFailures(rp, rems, fails) IN
    [err |-> "none",
     failed |-> failed,
     info |-> [Branch |-> IF "rev-parse" \in failed THEN "" ELSE "main",
               RemoteURL |-> IF "remote get-url" \in failed THEN "" ELSE "url",
               LastCommit |-> IF "log" \in failed THEN {} ELSE rp.head,
               Status |-> IF "status" \in failed THEN ""
                          ELSE IF StatusPaths(rp, wt) = {} THEN "clean"
                          ELSE "modified"]]

\* EncryptedStorage.GetStoreInfo()
GetStoreInfo(r, fails) ==
    LET got == GetStatus(repo[r], WorkTree(r), remotes[r], fails) IN
    /\ sync[r].pc = "idle"
    /\ ret' = IF ~initialized[r]
              THEN Result("GetStoreInfo", r, EmptyStr, "store not initialized")
              ELSE [Result("GetStoreInfo", r, EmptyStr, got.err) EXCEPT
                      !.out = <<got.info>>, !.failed = got.failed]
    /\ UNCHANGED <<initName, initialized, repoPath, disk, repo, remote, sync, remotes>>

\* EncryptedPasswordStoreRepository.InitializeStore(storeName, encStorage)
RepoInitializeStore(name, outcome) ==
    /\ initName[StorageOf(name)] = name
    /\ InitializeStore(StorageOf(name), outcome)
    /\ storages' = IF ret'.err = "none" THEN storages \cup {name} ELSE storages
    /\ repoRet' = RepoResult("InitializeStore", name, ret'.err)
    /\ UNCHANGED remotes

\* A repository method that looks the store up and calls the storage.
RepoSavePassword(name, entry, outcome) ==
    IF Registered(name)
    THEN /\ SavePassword(StorageOf(name), entry, outcome)
         /\ repoRet' = RepoResult("SavePassword", name, ret'.err)
         /\ UNCHANGED <<storages, remotes>>
    ELSE NotFound("SavePassword", name)

RepoDeletePassword(name, service, outcome) ==
    IF Registered(name)
    THEN /\ DeletePassword(StorageOf(name), service, outcome)
         /\ repoRet' = RepoResult("DeletePassword", name, ret'.err)
         /\ UNCHANGED <<storages, remotes>>
    ELSE NotFound("DeletePassword", name)

RepoGetPassword(name, service, keyOK) ==
    IF Registered(name)
    THEN /\ LoadPassword(StorageOf(name), service, keyOK)
         /\ repoRet' = RepoResult("GetPassword", name, ret'.err)
         /\ UNCHANGED <<storages, remotes>>
    ELSE NotFound("GetPassword", name)

RepoGetPasswordMetadata(name, service, keyOK) ==
    IF Registered(name)
    THEN /\ GetPasswordMetadata(StorageOf(name), service, keyOK)
         /\ repoRet' = RepoResult("GetPasswordMetadata", name, ret'.err)
         /\ UNCHANGED <<storages, remotes>>
    ELSE NotFound("GetPasswordMetadata", name)

RepoListPasswords(name, now, keyOK) ==
    IF Registered(name)
    THEN /\ ListPasswords(StorageOf(name), now, keyOK)
         /\ repoRet' = RepoResult("ListPasswords", name, ret'.err)
         /\ UNCHANGED <<storages, remotes>>
    ELSE NotFound("ListPasswords", name)

\* Sync (and SyncStore, which calls it): git pull origin needs the remote
\* to be configured.  The call returns after Pull when Pull fails, as it
\* does from a remote that holds no commit of this store.
RepoSyncPull(name, netOK) ==
    IF Registered(name)
    THEN /\ SyncPull(StorageOf(name), netOK /\ "origin" \in remotes[StorageOf(name)])
         /\ repoRet' = RepoResult("Sync", name, ret'.err)
         /\ UNCHANGED <<storages, remotes>>
    ELSE NotFound("Sync", name)

RepoConnectRemote(name, remoteName) ==
    IF Registered(name)
    THEN /\ ConnectRemote(StorageOf(name), remoteName)
         /\ repoRet' = RepoResult("ConnectRemote", name, ret'.err)
         /\ UNCHANGED storages
    ELSE NotFound("ConnectRemote", name)

RepoGetStoreInfo(name, fails) ==
    IF Registered(name)
    THEN /\ GetStoreInfo(StorageOf(name), fails)
         /\ repoRet' = RepoResult("GetStoreInfo", name, ret'.err)
         /\ UNCHANGED storages
    ELSE NotFound("GetStoreInfo", name)

\* The store commands: each runs in a process of its own.
handleInit(name, outcome) == RepoInitializeStore(name, outcome)
handleSync(name, netOK) == RepoSyncPull(name, netOK)
handleRemoteAdd(name, remoteName) == RepoConnectRemote(name, remoteName)
handleInfo(name, fails) == RepoGetStoreInfo(name, fails)

\* The process ends and the next command starts one: NewStoreInitHandler
\* makes a repository with an empty map, and the storage objects are gone;
\* the directories, the repositories and the registry file stay.
NewProcess ==
    /\ \A r \in Replicas : sync[r].pc = "idle"
    /\ storages' = {}
    /\ initialized' = [r \in Replicas |-> FALSE]
    /\ repoPath' = [r \in Replicas |-> StorePath]
    /\ repoRet' = RepoResult("new", "", "none")
    /\ UNCHANGED <<initName, disk, repo, remote, sync, ret, remotes>>

(***************************************************************************)
(* PasswordConfig, CharacterSet and PasswordGenerator                      *)
(***************************************************************************)

\* The character set constants; a string is the sequence of its characters.
Lowercase ==
    <<"a", "b", "c", "d", "e", "f", "g", "h", "i", "j", "k", "l", "m",
      "n", "o", "p", "q", "r", "s", "t", "u", "v", "w", "x", "y", "z">>
Uppercase ==
    <<"A", "B", "C", "D", "E", "F", "G", "H", "I", "J", "K", "L", "M",
      "N", "O", "P", "Q", "R", "S", "T", "U", "V", "W", "X", "Y", "Z">>
Numbers == <<"0", "1", "2", "3", "4", "5", "6", "7", "8", "9">>
Symbols ==
    <<"!", "@", "#", "$", "%", "^", "&", "*", "(", ")", "_", "+", "-",
      "=", "[", "]", "{", "}", "|", ";", ":", ",", ".", "<", ">", "?">>

\* similar := "il1Lo0O"
Similar == <<"i", "l", "1", "L", "o", "0", "O">>

\* entities.PasswordConfig
PasswordConfig(length, lower, upper, numbers, symbols, similar, exclude, count) ==
    [Length |-> length, IncludeLower |-> lower, IncludeUpper |-> upper,
     IncludeNumbers |-> numbers, IncludeSymbols |-> symbols,
     ExcludeSimilar |-> similar, ExcludeChars |-> exclude, Count |-> count]

\* PasswordConfig.Validate()
Validate(pc) ==
    IF pc.Length <= 0 THEN "password length must be positive"
    ELSE IF ~pc.IncludeLower /\ ~pc.IncludeUpper /\ ~pc.IncludeNumbers /\ ~pc.IncludeSymbols
    THEN "at least one character type must be selected"
    ELSE IF pc.Count <= 0 THEN "password count must be positive"
    ELSE "none"

\* strings.Contains(s, string(char))
Contains(s, char) == \E i \in 1..Len(s) : s[i] = char

\* strings.ReplaceAll(charset, string(char), "")
ReplaceAll(charset, char) == SelectSeq(charset, LAMBDA c : c # char)

\* for _, char := range chars { charset = strings.ReplaceAll(...) }
RECURSIVE RemoveEach(_, _)
RemoveEach(charset, chars) ==
    IF chars = <<>> THEN charset
    ELSE RemoveEach(ReplaceAll(charset, Head(chars)), Tail(chars))

\* The concatenation of the enabled classes.
EnabledClasses(config) ==
    (IF config.IncludeLower THEN Lowercase ELSE <<>>)
    \o (IF config.IncludeUpper THEN Uppercase ELSE <<>>)
    \o (IF config.IncludeNumbers THEN Numbers ELSE <<>>)
    \o (IF config.IncludeSymbols THEN Symbols ELSE <<>>)

\* A BuildCharset that leaves the similar characters in.
BuildCharsetKeepSimilar(config) ==
    LET charset == RemoveEach(EnabledClasses(config), config.ExcludeChars) IN
    IF Validate(config) # "none" THEN [err |-> Validate(config), charset |-> <<>>]
    ELSE IF EnabledClasses(config) = <<>>
    THEN [err |-> "no character sets selected", charset |-> <<>>]
    ELSE IF Len(charset) = 0
    THEN [err |-> "no characters available after exclusions", charset |-> <<>>]
    ELSE [err |-> "none", charset |-> charset]

\* CharacterSet.BuildCharset(config)
BuildCharset(config) ==
    LET classes == EnabledClasses(config)
        kept == IF config.ExcludeSimilar THEN RemoveEach(classes, Similar) ELSE classes
        charset == RemoveEach(kept, config.ExcludeChars)
    IN
    IF Validate(config) # "none" THEN [err |-> Validate(config), charset |-> <<>>]
    ELSE IF classes = <<>>
    THEN [err |-> "no character sets selected", charset |-> <<>>]
    ELSE IF Len(charset) = 0
    THEN [err |-> "no characters available after exclusions", charset |-> <<>>]
    ELSE [err |-> "none", charset |-> charset]

\* The size-- statements one character of an exclusion loop executes: one
\* for each enabled class that contains it.  The loop over the similar
\* characters does not look at Symbols.
Decrements(config, char, withSymbols) ==
    (IF config.IncludeLower /\ Contains(Lowercase, char) THEN 1 ELSE 0)
    + (IF config.IncludeUpper /\ Contains(Uppercase, char) THEN 1 ELSE 0)
    + (IF config.IncludeNumbers /\ Contains(Numbers, char) THEN 1 ELSE 0)
    + (IF withSymbols /\ config.IncludeSymbols /\ Contains(Symbols, char) THEN 1 ELSE 0)

RECURSIVE DecrementsOver(_, _, _)
DecrementsOver(config, chars, withSymbols) ==
    IF chars = <<>> THEN 0
    ELSE Decrements(config, Head(chars), withSymbols)
         + DecrementsOver(config, Tail(chars), withSymbols)

\* CharacterSet.CalculateCharsetSize(config)
CalculateCharsetSize(config) ==
    (IF config.IncludeLower THEN Len(Lowercase) ELSE 0)
    + (IF config.IncludeUpper THEN Len(Uppercase) ELSE 0)
    + (IF config.IncludeNumbers THEN Len(Numbers) ELSE 0)
    + (IF config.IncludeSymbols THEN Len(Symbols) ELSE 0)
    - (IF config.ExcludeSimilar THEN DecrementsOver(config, Similar, FALSE) ELSE 0)
    - DecrementsOver(config, config.ExcludeChars, TRUE)

\* The generator of a process: the config of the command, the last
\* operation and what it returned, and the charset field of the
\* CharacterSet, which BuildCharset sets when it succeeds.
Generation(config, op, err, password, size, charset) ==
    [config |-> config, op |-> op, err |-> err, password |-> password,
     size |-> size, charset |-> charset]

ZeroPasswordConfig == PasswordConfig(0, FALSE, FALSE, FALSE, FALSE, FALSE, <<>>, 0)

\* A process that generates no password.
NoGeneration == Generation(ZeroPasswordConfig, "new", "none", <<>>, 0, <<>>)

\* The values rand.Int(rand.Reader, n) is explored with: the least, the
\* middle and the greatest of [0, n).
RandInts(n) == {0, n \div 2, n - 1}

\* PasswordGenerator.GeneratePassword(config); nums[i] is the number
\* rand.Int returned for byte i.
GeneratePassword(nums) ==
    LET built == BuildCharset(pgen.config)
        err == IF Validate(pgen.config) # "none" THEN Validate(pgen.config) ELSE built.err
    IN
    /\ pgen' = [pgen EXCEPT
          !.op = "GeneratePassword",
          !.err = err,
          !.password = IF err = "none"
                       THEN [i \in 1..pgen.config.Length |-> built.charset[nums[i] + 1]]
                       ELSE <<>>,
          !.size = 0,
          !.charset = IF built.err = "none" THEN built.charset ELSE pgen.charset]
    /\ UNCHANGED <<cfgVars, storeVars, storages, remotes, repoRet, calls>>

\* The picks of rand.Int for a config: one number below the length of the
\* charset for each byte, none when no byte is generated.
RandNums(config) ==
    IF BuildCharset(config).err # "none" THEN {<<>>}
    ELSE [1..config.Length -> RandInts(Len(BuildCharset(config).charset))]

\* CharacterSet.BuildCharset(config) called on the generator's CharacterSet.
BuildCharsetCall ==
    LET built == BuildCharset(pgen.config) IN
    /\ pgen' = [pgen EXCEPT
          !.op = "BuildCharset", !.err = built.err, !.password = <<>>, !.size = 0,
          !.charset = IF built.err = "none" THEN built.charset ELSE pgen.charset]
    /\ UNCHANGED <<cfgVars, storeVars, storages, remotes, repoRet, calls>>

\* PasswordAnalyzer.AnalyzePassword: charsetSize := CalculateCharsetSize(config)
CalculateCharsetSizeCall ==
    /\ pgen' = [pgen EXCEPT
          !.op = "CalculateCharsetSize", !.err = "none", !.password = <<>>,
          !.size = CalculateCharsetSize(pgen.config)]
    /\ UNCHANGED <<cfgVars, storeVars, storages, remotes, repoRet, calls>>

(***************************************************************************)
(* Specifications                                                          *)
(***************************************************************************)

\* calls[r] counts the state-changing calls made on replica r's storage; at
\* most MaxCalls of them are explored.
MaxCalls == 3

\* The clock readings handed to ListPasswords, in units of HoursPerUnit.
MaxTime == 4
Times == 0..MaxTime

\* A process that has constructed its repository
\* (NewEncryptedPasswordStoreRepository): no storage is registered.  rems is
\* the remotes the git repositories of the store directories have.
ProcInit(rems) ==
    /\ storages = {}
    /\ remotes = [r \in Replicas |-> rems]
    /\ repoRet = RepoResult("new", "", "none")

CfgInit ==
    /\ cfgFile = NoFile
    /\ cfgRet = CfgResult("new", "", "none")

\* A process that has constructed its storage objects (NewEncryptedStorage)
\* over empty directories.
StorageInit ==
    /\ initialized = [r \in Replicas |-> FALSE]
    /\ repoPath = [r \in Replicas |-> StorePath]
    /\ disk = [r \in Replicas |-> [d \in Dirs |-> EmptyDir]]
    /\ repo = [r \in Replicas |-> NoRepo]
    /\ remote = [head |-> {}, tree |-> EmptyDir]
    /\ sync = [r \in Replicas |-> NotSyncing]
    /\ ret = Result("new", "A", EmptyStr, "none")
    /\ calls = [r \in Replicas |-> 0]
    /\ ProcInit({})

StoreInit == StorageInit /\ pgen = NoGeneration

NextConfig ==
    \/ \E config \in StoreConfigs, outcome \in SaveOutcomes :
         SaveConfig(config, outcome) /\ UNCHANGED <<storeVars, procVars, calls>>
    \/ LoadConfigCall /\ UNCHANGED <<storeVars, procVars, calls>>
    \/ GetDefaultStore /\ UNCHANGED <<storeVars, procVars, calls>>
    \/ \E n \in RegistryNames \cup {"nonexistent"}, outcome \in SaveOutcomes :
         SetDefaultStore(n, outcome) /\ UNCHANGED <<storeVars, procVars, calls>>

vars == <<cfgVars, storeVars, procVars, calls>>

\* A registry of two stores and no default that was put at the
\* configuration path by other means than SaveConfig (copied from another
\* machine, written with an editor), with the mode such a file usually has.
CopiedRegistry ==
    [YamlFile([ZeroConfig EXCEPT
                 !.Stores = [n \in {"personal", "work"} |-> PasswordStoreRec(n, FALSE)],
                 !.StoresNil = FALSE])
       EXCEPT !.mode = WorldReadable]

\* A process that has constructed its ConfigManager: the registry file does
\* not exist yet, or it is one the user has put there.
InitConfig ==
    /\ cfgFile \in {NoFile, CopiedRegistry}
    /\ cfgRet = CfgResult("new", "", "none")
    /\ initName = [r \in Replicas |-> ""]
    /\ StoreInit

SpecConfig == InitConfig /\ [][NextConfig]_vars

\* The registries SaveConfig has persisted after stores were added and
\* before any default was chosen, and the registry that was never saved.
NoDefaultRegistries ==
    {NoFile} \cup
    {YamlFile([createDefaultConfig EXCEPT
                 !.Stores = [n \in S |-> PasswordStoreRec(n, FALSE)]]) :
       S \in SUBSET RegistryNames}

InitDefault ==
    /\ cfgFile \in NoDefaultRegistries
    /\ cfgRet = CfgResult("new", "", "none")
    /\ initName = [r \in Replicas |-> ""]
    /\ StoreInit

\* The default store is only ever changed through SetDefaultStore.
NextDefault ==
    \/ GetDefaultStore /\ UNCHANGED <<storeVars, procVars, calls>>
    \/ \E n \in RegistryNames \cup {"nonexistent"}, outcome \in SaveOutcomes :
         SetDefaultStore(n, outcome) /\ UNCHANGED <<storeVars, procVars, calls>>

SpecDefault == InitDefault /\ [][NextDefault]_vars

\* The entries handed to SavePassword on one storage: the service db with
\* each field varied in turn, and the two names that sanitize to one file.
StoreEntries ==
    {BaseEntry(SvcDb, PwOne), BaseEntry(SvcDb, PwTwo), BaseEntry(SvcDb, PwInvalid),
     PasswordEntry(SvcDb, UserAl, PwOne, EmptyStr, OneKeyMap, AutoRotationAt(TRUE, 3),
                   <<RotationRecord(1, <<"m">>)>>),
     BaseEntry(SvcSpace, PwOne), BaseEntry(SvcUnder, PwTwo),
     BaseEntry(SvcDash, PwOne)}

\* The reasons handed to RotatePassword.
RotationReasons == {"manual", "scheduled"}

InitStore ==
    /\ CfgInit
    /\ initName \in {[r \in Replicas |-> IF r = "A" THEN n ELSE ""] : n \in StoreNames}
    /\ StoreInit

Call(r) == calls[r] < MaxCalls /\ calls' = [calls EXCEPT ![r] = @ + 1]

NextStore ==
    \/ \E outcome \in InitOutcomes :
         Call("A") /\ InitializeStore("A", outcome) /\ UNCHANGED <<cfgVars, procVars>>
    \/ \E entry \in StoreEntries, outcome \in SaveOutcomes2 :
         Call("A") /\ SavePassword("A", entry, outcome) /\ UNCHANGED <<cfgVars, procVars>>
    \/ \E name \in Services, outcome \in DeleteOutcomes :
         Call("A") /\ DeletePassword("A", name, outcome) /\ UNCHANGED <<cfgVars, procVars>>
    \/ \E name \in Services, keyOK \in BOOLEAN :
         LoadPassword("A", name, keyOK) /\ UNCHANGED <<cfgVars, procVars, calls>>
    \/ \E now \in Times, keyOK \in BOOLEAN :
         ListPasswords("A", now, keyOK) /\ UNCHANGED <<cfgVars, procVars, calls>>
    \/ \E name \in Services, keyOK \in BOOLEAN :
         GetPasswordMetadata("A", name, keyOK) /\ UNCHANGED <<cfgVars, procVars, calls>>

SpecStore == InitStore /\ [][NextStore]_vars

\* The repository's operations on the rotation of one storage's entries.
NextRotation ==
    \/ \E outcome \in InitOutcomes :
         Call("A") /\ InitializeStore("A", outcome) /\ UNCHANGED <<cfgVars, procVars>>
    \/ \E entry \in StoreEntries, outcome \in SaveOutcomes2 :
         Call("A") /\ SavePassword("A", entry, outcome) /\ UNCHANGED <<cfgVars, procVars>>
    \/ \E entry \in StoreEntries, outcome \in SaveOutcomes2 :
         Call("A") /\ AddPassword("A", entry, outcome) /\ UNCHANGED <<cfgVars, procVars>>
    \/ \E entry \in StoreEntries, outcome \in SaveOutcomes2 :
         Call("A") /\ UpdatePassword("A", entry, outcome) /\ UNCHANGED <<cfgVars, procVars>>
    \/ GetRotationStatus("A") /\ UNCHANGED <<cfgVars, procVars, calls>>
    \/ CheckDueRotations("A") /\ UNCHANGED <<cfgVars, procVars, calls>>
    \/ \E name \in Services, reason \in RotationReasons :
         RotatePassword("A", name, reason) /\ UNCHANGED <<cfgVars, procVars, calls>>

SpecRotation == InitStore /\ [][NextRotation]_vars

\* The greatest Length of a config.
MaxLength == 2

\* The ExcludeChars of the configs: none, a repeated character, a similar
\* character, every digit, and characters of two classes.
ExcludeCharsInputs == {<<>>, <<"a", "a">>, <<"l">>, Numbers, <<"#", "Z">>}

\* The configs handed to the generator.
GenConfigs ==
    {PasswordConfig(length, lower, upper, numbers, symbols, similar, exclude, count) :
        length \in 0..MaxLength, lower \in BOOLEAN, upper \in BOOLEAN,
        numbers \in BOOLEAN, symbols \in BOOLEAN, similar \in BOOLEAN,
        exclude \in ExcludeCharsInputs, count \in {0, 1}}

InitGen ==
    /\ CfgInit
    /\ initName = [r \in Replicas |-> ""]
    /\ StorageInit
    /\ pgen \in {Generation(config, "new", "none", <<>>, 0, <<>>) : config \in GenConfigs}

NextGen ==
    \/ \E nums \in RandNums(pgen.config) : GeneratePassword(nums)
    \/ BuildCharsetCall
    \/ CalculateCharsetSizeCall

SpecGen == InitGen /\ [][NextGen]_vars

\* No command has run yet: the store directories are empty and the remote
\* holds no commit.
InitRepo ==
    /\ CfgInit
    /\ initName = [r \in Replicas |-> IF r = "A" THEN "work" ELSE "personal"]
    /\ StoreInit

\* The entry and the service of the repository calls.
RepoEntries == {BaseEntry(SvcDb, PwOne)}
RepoServices == {SvcDb}

NextRepo ==
    \/ \E name \in RepoStoreNames :
         Call(StorageOf(name)) /\ handleInit(name, "ok") /\ UNCHANGED <<cfgVars, pgen>>
    \/ NewProcess /\ UNCHANGED <<cfgVars, pgen, calls>>
    \/ \E name \in OpStoreNames, netOK \in BOOLEAN :
         handleSync(name, netOK) /\ UNCHANGED <<cfgVars, pgen, calls>>
    \/ \E name \in OpStoreNames :
         handleRemoteAdd(name, "origin") /\ UNCHANGED <<cfgVars, pgen, calls>>
    \/ \E name \in OpStoreNames, fails \in {{}, {"status"}} :
         handleInfo(name, fails) /\ UNCHANGED <<cfgVars, pgen, calls>>
    \/ \E name \in OpStoreNames, entry \in RepoEntries :
         /\ IF Registered(name) THEN Call(StorageOf(name)) ELSE UNCHANGED calls
         /\ RepoSavePassword(name, entry, "ok")
         /\ UNCHANGED <<cfgVars, pgen>>
    \/ \E name \in OpStoreNames, service \in RepoServices :
         /\ IF Registered(name) THEN Call(StorageOf(name)) ELSE UNCHANGED calls
         /\ RepoDeletePassword(name, service, "ok")
         /\ UNCHANGED <<cfgVars, pgen>>
    \/ \E name \in OpStoreNames, service \in RepoServices :
         RepoGetPassword(name, service, TRUE) /\ UNCHANGED <<cfgVars, pgen, calls>>
    \/ \E name \in OpStoreNames, service \in RepoServices :
         RepoGetPasswordMetadata(name, service, TRUE) /\ UNCHANGED <<cfgVars, pgen, calls>>
    \/ \E name \in OpStoreNames :
         RepoListPasswords(name, 0, TRUE) /\ UNCHANGED <<cfgVars, pgen, calls>>

SpecRepo == InitRepo /\ [][NextRepo]_vars

\* The commit and tree both replicas were cloned from: a store some earlier
\* InitializeStore created and pushed.
BaseCommit == Commit("origin", 0, {GitIgnoreFile, StoreMetadataFile})

BaseTree ==
    [EmptyDir EXCEPT ![GitIgnoreFile] = Blob("text", <<>>, 0),
                     ![StoreMetadataFile] = Encrypt(JsonMarshalStore("", StorePath), 0)]

\* The metadata file a replica's InitializeStore("") wrote over the clone,
\* and the commit it made.
InitMetadata(r) ==
    Encrypt(JsonMarshalStore("", StorePath), IF r = "A" THEN 1 ELSE 2)

InitTree(r) == [BaseTree EXCEPT ![StoreMetadataFile] = InitMetadata(r)]

\* Two replicas: clones of the remote in the store path of two machines,
\* each with a storage object constructed over it, after InitializeStore("")
\* has returned nil on both.
Init ==
    /\ CfgInit
    /\ initName = [r \in Replicas |-> ""]
    /\ initialized = [r \in Replicas |-> TRUE]
    /\ repoPath = [r \in Replicas |-> StorePath]
    /\ disk = [r \in Replicas |->
                [d \in Dirs |-> IF d = StorePath THEN InitTree(r) ELSE EmptyDir]]
    /\ repo = [r \in Replicas |->
                [NoRepo EXCEPT !.exists = TRUE,
                               !.head = {BaseCommit, Commit(r, 1, {StoreMetadataFile})},
                               !.tree = InitTree(r), !.index = InitTree(r)]]
    /\ remote = [head |-> {BaseCommit}, tree |-> BaseTree]
    /\ sync = [r \in Replicas |-> NotSyncing]
    /\ ret = Result("InitializeStore", "B", EmptyStr, "none")
    /\ calls = [r \in Replicas |-> 0]
    /\ ProcInit({"origin"})
    /\ pgen = NoGeneration

\* The entries the replicas save: one service both may edit, and another.
SyncEntries == {BaseEntry(SvcDb, PwOne), BaseEntry(SvcSpace, PwTwo)}
SyncSaveOutcomes == {"ok", "commit"}

Next ==
    \/ \E r \in Replicas, entry \in SyncEntries, outcome \in SyncSaveOutcomes :
         Call(r) /\ SavePassword(r, entry, outcome) /\ UNCHANGED <<cfgVars, procVars>>
    \/ \E r \in Replicas, netOK \in BOOLEAN :
         Call(r) /\ SyncPull(r, netOK) /\ UNCHANGED <<cfgVars, procVars>>
    \/ \E r \in Replicas, netOK \in BOOLEAN :
         SyncPush(r, netOK) /\ UNCHANGED <<cfgVars, procVars, calls>>

Spec == Init /\ [][Next]_vars

----
\* C1: after a successful SetDefaultStore(name) the persisted registry has
\* DefaultStore = name, the named store is flagged IsDefault and no other
\* store is, whatever registry was persisted before the call.
C1_ExactlyOneDefault ==
    (cfgRet.op = "SetDefaultStore" /\ cfgRet.err = "none") =>
        /\ cfgFile.kind = "yaml"
        /\ cfgFile.doc.DefaultStore = cfgRet.name
        /\ cfgRet.name \in DOMAIN cfgFile.doc.Stores
        /\ \A n \in DOMAIN cfgFile.doc.Stores :
             cfgFile.doc.Stores[n].IsDefault = (n = cfgRet.name)
        /\ Cardinality({n \in DOMAIN cfgFile.doc.Stores :
                          cfgFile.doc.Stores[n].IsDefault}) = 1

\* A successful SetDefaultStore on a registry of three stores.
C1_Witness ==
    /\ cfgRet.op = "SetDefaultStore"
    /\ cfgRet.err = "none"
    /\ cfgRet.name = "work"
    /\ DOMAIN cfgFile.doc.Stores = RegistryNames

(***************************************************************************)
(* C2..C4: one storage object (SpecStore)                                  *)
(***************************************************************************)

\* An entry with the store-managed timestamps left out of the comparison.
SansTimestamps(entry) == [entry EXCEPT !.CreatedAt = 0, !.UpdatedAt = 0]

\* C2: when a SavePassword(e) that returned nil is followed by a
\* LoadPassword(e.Service) that returns nil, the entry loaded equals e in
\* every field other than the timestamps CreatedAt and UpdatedAt.
C2_SaveLoadRoundTrip ==
    [][(/\ ret.op = "SavePassword" /\ ret.err = "none"
        /\ ret'.op = "LoadPassword" /\ ret'.err = "none"
        /\ ret'.r = ret.r /\ ret'.svc = ret.svc)
       => SansTimestamps(ret'.out[1]) = SansTimestamps(ret.arg[1])]_vars

\* The directory root with the secret of every stored entry replaced by pw:
\* a store that differs from root in Password values only.
WithSecret(root, pw) ==
    [f \in Files |->
        IF root[f].kind = "gpg" /\ "password" \in DOMAIN root[f].plain
        THEN [root[f] EXCEPT !.plain = [@ EXCEPT !["password"] = JsonString(pw)]]
        ELSE root[f]]

Secrets == {EmptyStr, PwOne, PwTwo}

\* C3: ListPasswords and GetPasswordMetadata return the same results on any
\* two stores that differ only in the Password values of their entries.
C3_MetadataIndependentOfSecret ==
    LET root == disk["A"][StorePath]
        listed == [now \in Times |-> ListPasswordsOf(root, now, TRUE)]
        got == [name \in Services |-> GetPasswordMetadataOf(root, name, TRUE)]
    IN
    \A pw \in Secrets :
        LET other == WithSecret(root, pw) IN
        /\ \A now \in Times : ListPasswordsOf(other, now, TRUE) = listed[now]
        /\ \A name \in Services : GetPasswordMetadataOf(other, name, TRUE) = got[name]

\* ListPasswords has returned the metadata of a stored entry with a
\* non-empty secret and an enabled rotation.
C3_Witness ==
    /\ ret.op = "ListPasswords" /\ ret.err = "none"
    /\ \E i \in 1..Len(ret.out) :
         /\ ret.out[i].Service = SvcDb
         /\ ~ret.out[i].AutoRotation.nil
    /\ LoadPasswordFrom(disk["A"][StorePath], SvcDb, TRUE).entry.Password = PwOne

\* The services that have an entry in the directory root.
StoredServices(root) ==
    {JsonUnmarshalEntry(root[f].plain).Service :
        f \in {g \in Present(root) : HasSuffix(g, GpgSuffix) /\ g # StoreMetadataFile
                                     /\ root[g].kind = "gpg"}}

\* C4: DeletePassword for a service that has no entry in an initialized
\* store returns the not-found error and changes neither the directory nor
\* the repository (index and commits).
C4_DeleteMissingLeavesStore ==
    [][(/\ ret'.op = "DeletePassword"
        /\ initialized[ret'.r]
        /\ ret'.svc \notin StoredServices(disk[ret'.r][StorePath]))
       => (/\ ret'.err = "password entry not found"
           /\ disk' = disk
           /\ repo' = repo)]_vars

(***************************************************************************)
(* C5..C8: two replicas and their remote (Spec)                            *)
(***************************************************************************)

\* C5: a Sync call runs pull at most once and first, runs push at most once
\* and only after a pull that succeeded with no conflicted path, and when
\* the pull failed or conflicts were reported it returns an error with no
\* push.
C5_PullBeforePush ==
    ret.op = "Sync" =>
        /\ ret.cmds \in {<<>>, <<"pull">>, <<"pull", "push">>}
        /\ ret.cmds = <<"pull", "push">> =>
              sync[ret.r].pull = "ok" /\ ret.paths = {}
        /\ (ret.cmds # <<>> /\ (sync[ret.r].pull = "failed" \/ ret.paths # {})) =>
              ret.err \notin {"none", "running"} /\ ret.cmds = <<"pull">>

\* A Sync call has pulled, pushed and returned nil.
C5_Witness ==
    /\ ret.op = "Sync" /\ ret.err = "none" /\ ret.cmds = <<"pull", "push">>
    /\ remote.head = repo[ret.r].head

\* The entry files that the commits replica r made itself change.
Edited(r, commits) ==
    Touched({c \in commits : c.by = r}) \ {StoreMetadataFile, GitIgnoreFile}

\* The paths that the history of replica r and the commits theirs have
\* both changed since their common history, to different content.
DivergedPaths(r, theirs, tree) ==
    {f \in Touched(repo[r].head \ theirs) \cap Touched(theirs \ repo[r].head) :
        repo[r].tree[f] # tree[f]}

\* The Sync call of replica r returns in this step.
SyncReturns(r) == ret'.op = "Sync" /\ ret'.r = r /\ ret'.err # "running"

\* C6: when replica o has committed a change to a service's file and has
\* synced, and replica r has committed a different change to that file, a
\* Sync on r that begins then and reaches the remote returns an error that
\* names exactly the paths the two histories diverge on, merges nothing into
\* r's history and pushes nothing.
C6_SameServiceConflict ==
    [][\A r \in Replicas : \A o \in Replicas \ {r} :
        (/\ SyncReturns(r)
         /\ ret'.cmds # <<>>
         /\ ret'.err # PullUnreachable
         /\ ~repo[r].merging
         /\ Edited(o, sync'[r].began[o]) = {EntryFileName(SvcDb)}
         /\ Edited(r, repo[r].head) = {EntryFileName(SvcDb)}
         /\ \A c \in sync'[r].began[o] : c.by = o => c \notin repo[r].head
         /\ repo[r].tree[EntryFileName(SvcDb)] # repo[o].tree[EntryFileName(SvcDb)])
        => (/\ ret'.err # "none"
            /\ ret'.paths = DivergedPaths(r, sync'[r].began[o], repo[o].tree)
            /\ repo'[r].head = repo[r].head
            /\ remote' = remote)]_vars

\* C7: when the two replicas have each committed changes to the file of a
\* different service only, no Sync call of either returns a conflict error.
C7_DifferentServicesNoConflict ==
    [][\A r \in Replicas : \A o \in Replicas \ {r} :
        (/\ SyncReturns(r)
         /\ Edited(r, repo[r].head) # {}
         /\ Edited(o, repo[o].head) # {}
         /\ Edited(r, repo[r].head) \cap Edited(o, repo[o].head) = {})
        => (/\ ret'.paths = {}
            /\ ret'.err # "merge conflicts detected in files")]_vars

\* C8: when a Sync call returns nil the remote branch contains every commit
\* the replica made in SavePassword or DeletePassword.
C8_SyncPushesLocalCommits ==
    (ret.op = "Sync" /\ ret.err = "none" /\ ret.cmds # <<>>) =>
        \A c \in repo[ret.r].head :
            (c.by = ret.r /\ Edited(ret.r, {c}) # {}) => c \in remote.head

(***************************************************************************)
(* C9, C10: one storage object (SpecStore)                                 *)
(***************************************************************************)

\* C9: a SavePassword or DeletePassword that returns nil adds exactly one
\* commit, which changes exactly the file of the entry named, and leaves no
\* entry file with an uncommitted change.
C9_OneCommitPerMutation ==
    [][(ret'.op \in {"SavePassword", "DeletePassword"} /\ ret'.err = "none")
       => \A r \in {ret'.r} :
            LET new == repo'[r].head \ repo[r].head IN
            /\ Cardinality(new) = 1
            /\ \A c \in new : c.touched = {EntryFileName(ret'.svc)}
            /\ StatusPaths(repo'[r], disk'[r][StorePath]) = {}]_vars

\* C10: once a store is initialized, the directory its git service runs in
\* is the directory SavePassword writes entry files to, and the store
\* metadata file is in that directory.
C10_OneStoreRoot ==
    \A r \in Replicas :
        initialized[r] =>
            /\ repo[r].exists
            /\ repoPath[r] = StorePath
            /\ disk[r][StorePath][StoreMetadataFile].kind # "absent"

\* C11: the sequence a successful ListPasswords returns is in ascending
\* order of service name, whatever order the directory scan produced.
C11_ListSortedByService ==
    (ret.op = "ListPasswords" /\ ret.err = "none")
    => \A i \in DOMAIN ret.out : \A j \in DOMAIN ret.out :
         i < j => ~NameLess(ret.out[j].Service, ret.out[i].Service)

\* The entry files in the store directory of replica r.
EntryFiles(r) ==
    {f \in Present(disk[r][StorePath]) : HasSuffix(f, GpgSuffix) /\ f # StoreMetadataFile}

\* C12: a ListPasswords that returns nil has an element for every entry
\* file of the store: an entry that cannot be decrypted is surfaced, as an
\* error or as a placeholder element, and is never left out silently.
C12_UndecryptableSurfaced ==
    (ret.op = "ListPasswords" /\ ret.err = "none")
    => \A f \in EntryFiles(ret.r) :
         \E i \in DOMAIN ret.out : EntryFileName(ret.out[i].Service) = f

\* C13: a LoadConfig over a missing registry file returns nil and a config
\* with DefaultStore empty, a store map that is empty and not nil, and the
\* rotation policy of 90 days, 7 days of notice, auto-generate on and a
\* 16-character profile with all four character classes.
C13_LoadConfigDefaults ==
    (cfgRet.op = "LoadConfig" /\ cfgFile.kind = "absent")
    => /\ cfgRet.err = "none"
       /\ cfgRet.config.DefaultStore = ""
       /\ DOMAIN cfgRet.config.Stores = {}
       /\ ~cfgRet.config.StoresNil
       /\ ~cfgRet.config.DefaultRotation.nil
       /\ cfgRet.config.DefaultRotation.IntervalDays = 90
       /\ cfgRet.config.DefaultRotation.NotifyDaysBefore = 7
       /\ cfgRet.config.DefaultRotation.AutoGenerate
       /\ ~cfgRet.config.DefaultRotation.PasswordProfile.nil
       /\ cfgRet.config.DefaultRotation.PasswordProfile.Length = 16
       /\ cfgRet.config.DefaultRotation.PasswordProfile.IncludeUpper
       /\ cfgRet.config.DefaultRotation.PasswordProfile.IncludeLower
       /\ cfgRet.config.DefaultRotation.PasswordProfile.IncludeNumbers
       /\ cfgRet.config.DefaultRotation.PasswordProfile.IncludeSymbols

\* LoadConfig has returned while the registry file does not exist.
C13_Witness == cfgRet.op = "LoadConfig" /\ cfgFile.kind = "absent"

\* C14: whatever happens during a SaveConfig, the registry file after it is
\* the complete file of before the call or a complete new document, never an
\* empty or cut-off one.
C14_SaveConfigAtomic ==
    [][cfgRet'.op \in {"SaveConfig", "SetDefaultStore"}
       => (cfgFile' = cfgFile \/ cfgFile'.kind = "yaml")]_vars

\* C15: after a SaveConfig that returned nil the permission bits of the
\* registry file are exactly 0600, whether the call created the file or the
\* file was there before.
C15_OwnerOnlyAfterSave ==
    (cfgRet.op = "SaveConfig" /\ cfgRet.err = "none") => cfgFile.mode = "0600"

\* C16: a SetDefaultStore with a name that is not in the registry returns an
\* error and writes nothing: the registry file, and with it DefaultStore and
\* every IsDefault flag, is what it was before the call.
C16_UnknownStoreRejected ==
    [][(/\ cfgRet'.op = "SetDefaultStore"
        /\ cfgRet'.name \notin DOMAIN LoadConfig(cfgFile).config.Stores)
       => (cfgRet'.err # "none" /\ cfgFile' = cfgFile)]_vars

\* SetDefaultStore has refused a name that a registry of several stores
\* does not hold.
C16_Witness ==
    /\ cfgRet.op = "SetDefaultStore"
    /\ cfgRet.name = "nonexistent"
    /\ cfgRet.err = "store does not exist"
    /\ cfgFile.kind = "yaml"
    /\ Cardinality(DOMAIN cfgFile.doc.Stores) > 1

\* The stores the registry file flags IsDefault.
Flagged(file) ==
    LET l == LoadConfig(file)
    IN IF l.err # "none" THEN {}
       ELSE {n \in DOMAIN l.config.Stores : l.config.Stores[n].IsDefault}

\* C17: from a registry with no default and under SetDefaultStore calls
\* only, GetDefaultStore returns an error exactly when no store is flagged
\* IsDefault and otherwise the name of the one flagged store; the flagged
\* store is the one named by the last SetDefaultStore that returned nil,
\* as every such call flags its store alone and no other step flags one.
C17_DefaultIsLastSet ==
    [][/\ cfgRet'.op = "GetDefaultStore"
          => /\ (cfgRet'.err # "none") <=> (Flagged(cfgFile) = {})
             /\ cfgRet'.err = "none" => Flagged(cfgFile) = {cfgRet'.name}
       /\ IF cfgRet'.op = "SetDefaultStore" /\ cfgRet'.err = "none"
          THEN Flagged(cfgFile') = {cfgRet'.name}
          ELSE Flagged(cfgFile') \in {Flagged(cfgFile), {}}]_vars

\* GetDefaultStore has returned the default store of a registry of three
\* stores, which a SetDefaultStore has chosen.
C17_Witness ==
    /\ cfgRet.op = "GetDefaultStore"
    /\ cfgRet.err = "none"
    /\ cfgRet.name = "work"
    /\ DOMAIN cfgFile.doc.Stores = RegistryNames

\* The entries stored in a store directory.
StoredEntriesOf(root) ==
    {JsonUnmarshalEntry(root[f].plain) :
       f \in {g \in Present(root) : /\ HasSuffix(g, GpgSuffix)
                                     /\ g # StoreMetadataFile
                                     /\ root[g].kind = "gpg"}}

StoredEntries(r) == StoredEntriesOf(disk[r][StorePath])

RotationEnabled(entry) == ~entry.AutoRotation.nil /\ entry.AutoRotation.Enabled

\* C18: GetRotationStatus and CheckDueRotations on an initialized store
\* return nil and one status for each stored entry with rotation enabled and
\* none for the others, and the status is the bucket of the days until the
\* next rotation: overdue below 0, critical for 0..2, soon for 3..7,
\* scheduled above 7.
C18_RotationStatusBuckets ==
    (ret.op \in {"GetRotationStatus", "CheckDueRotations"} /\ initialized[ret.r])
    => /\ ret.err = "none"
       /\ {ret.out[i].Service : i \in DOMAIN ret.out}
            = {e.Service : e \in {x \in StoredEntries(ret.r) : RotationEnabled(x)}}
       /\ \A i \in DOMAIN ret.out :
            /\ ret.out[i].DaysUntilNext < 0 <=> ret.out[i].Status = "overdue"
            /\ ret.out[i].DaysUntilNext \in 0..2 <=> ret.out[i].Status = "critical"
            /\ ret.out[i].DaysUntilNext \in 3..7 <=> ret.out[i].Status = "soon"
            /\ ret.out[i].DaysUntilNext > 7 <=> ret.out[i].Status = "scheduled"

\* The entry of a service in a store directory (a set of at most one entry).
EntryOf(root, service) == {e \in StoredEntriesOf(root) : e.Service = service}

UnitsPerDay == HoursPerDay \div HoursPerUnit

\* C19: RotatePassword on a stored entry that has a password profile
\* returns nil, and the stored entry then has its history extended by
\* exactly one record, a different secret, and NextRotationAt equal to the
\* instant of that record plus IntervalDays days.
C19_RotateAppendsOneRecord ==
    [][\A old \in EntryOf(disk[ret'.r][StorePath], ret'.svc) :
         (/\ ret'.op = "RotatePassword"
          /\ initialized[ret'.r]
          /\ ~old.AutoRotation.nil
          /\ ~old.AutoRotation.PasswordProfile.nil)
         => /\ ret'.err = "none"
            /\ \E new \in EntryOf(disk'[ret'.r][StorePath], ret'.svc) :
                 /\ Len(new.RotationHistory) = Len(old.RotationHistory) + 1
                 /\ SubSeq(new.RotationHistory, 1, Len(old.RotationHistory))
                      = old.RotationHistory
                 /\ new.Password # old.Password
                 /\ new.AutoRotation.NextRotationAt
                      = new.RotationHistory[Len(new.RotationHistory)].RotatedAt
                        + new.AutoRotation.IntervalDays * UnitsPerDay]_vars

IsPrefix(a, b) == Len(a) <= Len(b) /\ SubSeq(b, 1, Len(a)) = a

\* C20: a call of AddPassword, UpdatePassword, SavePassword or
\* RotatePassword leaves every stored RotationHistory with the history
\* stored before the call as a prefix: records are appended, and none is
\* removed, reordered or altered.
C20_HistoryAppendOnly ==
    [][ret'.op \in {"SavePassword", "RotatePassword"}
       => \A service \in Services :
            \A old \in EntryOf(disk[ret'.r][StorePath], service) :
              \A new \in EntryOf(disk'[ret'.r][StorePath], service) :
                IsPrefix(old.RotationHistory, new.RotationHistory)]_vars

\* C21: an InitializeStore on a store that an earlier InitializeStore has
\* initialized, when it returns nil, has left the files of the store and
\* the repository, its commit history included, as the first call left them.
C21_InitializeIdempotent ==
    [][(ret'.op = "InitializeStore" /\ initialized[ret'.r] /\ ret'.err = "none")
       => /\ disk'[ret'.r] = disk[ret'.r]
          /\ repo'[ret'.r].head = repo[ret'.r].head]_vars

\* The store names for which the init command has succeeded: the commit
\* of InitializeStore is in the repository of the store.
InitDone == {n \in RepoStoreNames : repo[StorageOf(n)].head # {}}

\* C22: a successful store init records the store in the persisted
\* registry, and the sync, remote add and info commands of a later process
\* resolve the name of a store that was initialized instead of reporting it
\* as not found.
C22_InitPersistsStore ==
    [][/\ (repoRet'.op = "InitializeStore" /\ repoRet'.err = "none")
          => repoRet'.name \in DOMAIN LoadConfig(cfgFile').config.Stores
       /\ (/\ repoRet'.op \in {"Sync", "ConnectRemote", "GetStoreInfo"}
           /\ repoRet'.name \in InitDone)
          => repoRet'.err # "store not found"]_vars

\* The DaysUntilNext that ListPasswords reports for a service at an instant.
ListedDays(root, service, now) ==
    LET listed == ListPasswordsOf(root, now, TRUE) IN
    {listed[i].AutoRotation.DaysUntilNext :
        i \in {j \in 1..Len(listed) : listed[j].Service = service}}

\* C23: for a stored entry with rotation enabled, GetPasswordMetadata and
\* ListPasswords invoked at the same instant report the same DaysUntilNext,
\* the whole days from that instant to NextRotationAt.
C23_SameDaysUntilNext ==
    \A e \in StoredEntries("A"), now \in Times :
        RotationEnabled(e) =>
            LET got == GetPasswordMetadataOf(disk["A"][StorePath], e.Service, TRUE) IN
            /\ got.err = "none"
            /\ got.out[1].AutoRotation.DaysUntilNext
                  = WholeDays(e.AutoRotation.NextRotationAt - now)
            /\ ListedDays(disk["A"][StorePath], e.Service, now)
                  = {got.out[1].AutoRotation.DaysUntilNext}

\* The repository methods that look a store up before they act.
LookupOps ==
    {"GetPassword", "GetPasswordMetadata", "SavePassword", "ListPasswords",
     "DeletePassword", "Sync"}

\* C24: GetPassword, GetPasswordMetadata, SavePassword, ListPasswords,
\* DeletePassword and Sync called with a store name that is not registered
\* return an error and leave every storage, its files and its git repository
\* untouched, whatever other store is registered.
C24_UnregisteredStoreRejected ==
    [][(repoRet'.op \in LookupOps /\ repoRet'.name \notin storages)
       => /\ repoRet'.err # "none"
          /\ UNCHANGED <<storeVars, storages, remotes>>]_vars

C24_Witness ==
    /\ storages = {"work"}
    /\ repoRet.op = "SavePassword"
    /\ repoRet.name = "personal"
    /\ repoRet.err = "store not found"

\* C25: a GitService operation that ran a git command which exited with
\* failure returns an error; GetStatus in particular does not return a
\* RepositoryInfo with a nil error after one of its commands failed.
C25_GitFailureReturned ==
    (ret.op = "GetStoreInfo" /\ ret.failed # {}) => ret.err # "none"

\* The characters of a string.
CharsOf(str) == {str[i] : i \in 1..Len(str)}

C30_SizeIsCharsetLength ==
    (pgen.op = "CalculateCharsetSize" /\ BuildCharset(pgen.config).err = "none")
        => pgen.size = Len(BuildCharset(pgen.config).charset)

\* C27: when SavePassword returns an error, the files of the store and the
\* git repository, its index included, are as they were before the call, and
\* LoadPassword of every service returns what it returned before.
C27_FailedSaveLeavesStore ==
    [][(ret'.op = "SavePassword" /\ ret'.err # "none")
       => /\ disk'[ret'.r] = disk[ret'.r]
          /\ repo'[ret'.r] = repo[ret'.r]
          /\ \A name \in Services :
                LoadPasswordFrom(disk'[ret'.r][StorePath], name, TRUE)
                   = LoadPasswordFrom(disk[ret'.r][StorePath], name, TRUE)]_vars

\* The pairs of distinct service names.
DistinctServices == {p \in Services \X Services : p[1] # p[2]}

\* C28: SavePassword or DeletePassword of a service never changes what
\* LoadPassword returns for a different service, also when the two names
\* differ only in characters that the sanitization of file names replaces.
C28_DistinctServicesDistinctEntries ==
    [][\A p \in DistinctServices :
          (ret'.op \in {"SavePassword", "DeletePassword"} /\ ret'.svc = p[2])
          => LoadPasswordFrom(disk'[ret'.r][StorePath], p[1], TRUE)
                = LoadPasswordFrom(disk[ret'.r][StorePath], p[1], TRUE)]_vars

\* C29: for a stored entry with rotation enabled whose NextRotationAt is
\* earlier than the current time, by less than a day as well, the
\* DaysUntilNext that ListPasswords reports is negative.
C29_PastRotationIsNegative ==
    \A e \in StoredEntries("A"), now \in Times :
        (RotationEnabled(e) /\ e.AutoRotation.NextRotationAt < now)
        => \A days \in ListedDays(disk["A"][StorePath], e.Service, now) : days < 0

====
